---- MODULE Spec2Model ----
(***************************************************************************)
(* State-machine model of prometheus/collector.go: the Collector contract  *)
(* and SelfCollector (Init, Describe, Collect), with the Go channel that   *)
(* Collect sends into, the goroutines that call the methods and the        *)
(* reader that drains the channel.                                         *)
(***************************************************************************)
EXTENDS Integers, Sequences, FiniteSets, TLC

\* ------------------------------------------------------------------ bounds
MaxInits == 2      \* Init calls made in a run
MaxCollects == 2   \* Collect calls made in a run
MaxCap == 1        \* channel capacities 0..MaxCap
NumEmit == 5       \* snapshots the multi-metric Collect of the scenario emits
MaxEmit == 3       \* snapshots a multi-metric Collect emits, at most
MaxLabelled == 4   \* snapshots a vector Collect emits, at most
MaxValue == 2      \* a Metric's value is in 0..MaxValue
MaxWrites == 2     \* writes callers make into slices Describe returned
MaxAppends == 1    \* appends callers make to slices Describe returned
MaxReads == 2      \* reads the consumer makes of a received snapshot

\* ------------------------------------------------------------- the universe
Callers == {"g1", "g2"}          \* goroutines calling the Collector's methods
\* Of them, the goroutine that runs the metric's factory function, in which
\* Init is called.
Initializers == {"g1"}
Metrics == {"M1", "M2"}          \* Metric values (references)
Nil == "nil"                     \* the nil Metric of a zero SelfCollector

\* Descriptors a Metric's Desc() may return. D1 and D2 differ only in the
\* declared order of their variable labels.
D1 == [name |-> "a", help |-> "h", labels |-> <<"x", "y">>, consts |-> {}]
D2 == [name |-> "a", help |-> "h", labels |-> <<"y", "x">>, consts |-> {}]
D3 == [name |-> "b", help |-> "h", labels |-> <<>>, consts |-> {}]
Descs == {D1, D2, D3}

\* The descriptors each Metric's Desc() can return: M1's implementation may
\* change the descriptor it returns, M2's returns the same one always.
DescsOf(m) == IF m = "M1" THEN {D1, D3} ELSE {D2}

Range(s) == {s[i] : i \in DOMAIN s}

\* Fingerprint with a fault: the variable label names are combined in their
\* declared order.
FingerprintOrdered(d) ==
  [name |-> d.name, labels |-> d.labels, consts |-> d.consts]

\* Fingerprint with a fault: of the constant labels only the names are
\* combined.
FingerprintConstNames(d) ==
  [name |-> d.name, labels |-> Range(d.labels),
   consts |-> {c[1] : c \in d.consts}]

\* The descriptor's fingerprint: the canonical combination of its name, the
\* set of its variable label names and its constant labels (names and
\* values), which the hash is taken of.
Fingerprint(d) ==
  [name |-> d.name, labels |-> Range(d.labels), consts |-> d.consts]
FpSet(ds) == {Fingerprint(ds[i]) : i \in DOMAIN ds}

VARIABLES
  self,        \* SelfCollector.self: a Metric, or Nil
  descs,       \* SelfCollector.descs: a slice header [arr, len]
  heap,        \* the backing arrays of the slices Init allocated
  metricDesc,  \* what each Metric's Desc() returns when called now
  pc,          \* each goroutine's position
  arg,         \* Init's parameter, per goroutine
  val,         \* the snapshot a goroutine inside Collect sends next
  todo,        \* how many snapshots a goroutine's multi-metric Collect emits
  ret,         \* what Describe returned to each goroutine inside it
  firstRet,    \* the first Describe result since the last Init call began
  buf,         \* the channel's buffer
  cap,         \* the channel's capacity
  reader,      \* whether a goroutine drains the channel
  drained,     \* what the reader received, in order
  initStarted, \* Init calls begun
  initDone,    \* Init calls completed
  firstInit,   \* the first completed Init: its Metric and the Desc() result
  descCalls,   \* invocations of a Metric's Desc()
  collects,    \* Collect calls begun
  returned,    \* the Collect calls that returned
  metricVal,   \* the value each Metric holds now
  reads,       \* what the consumer read from the first snapshot received
  writes,      \* writes callers made into slices Describe returned
  descPair     \* two descriptors under construction

vars == <<self, descs, heap, metricDesc, pc, arg, val, todo, ret, firstRet,
          buf, cap, reader, drained, initStarted, initDone, firstInit,
          descCalls, collects, returned, metricVal, reads, writes,
          descPair>>

collectorVars == <<self, descs, heap>>
initVars == <<initStarted, initDone, firstInit, descCalls>>
chanVars == <<buf, drained>>
\* What surrounds the collector: the channel's capacity and reader, the
\* metrics' values, what callers do with Describe's results, and the
\* descriptors being constructed.
envVars == <<cap, reader, metricVal, reads, writes, descPair>>

\* How many Init calls have begun and completed: a call's view of the wrapper.
Epoch == <<initStarted, initDone>>

\* Init has been called once, and has returned.
InitOnce == <<1, 1>>

NilSlice == [arr |-> 0, len |-> 0]

\* The elements a slice header denotes.
SliceVal(h) == IF h.arr = 0 THEN <<>> ELSE SubSeq(heap[h.arr], 1, h.len)

NoItem == [m |-> Nil, id |-> 0, k |-> 0, once |-> FALSE]
NoRet == [val |-> <<>>, hdr |-> NilSlice, ep |-> <<-1, -1>>, at |-> 0,
          stale |-> FALSE]
NoFirst == [val |-> <<>>, ep |-> <<-1, -1>>]
NoInit == [m |-> Nil, d |-> D1]
NoPair == <<>>

\* The arrays some slice header still refers to; the others are garbage and
\* their contents are dropped.
Live(ds, rs) == {ds.arr} \cup {rs[p].hdr.arr : p \in Callers}
Sweep(h, live) == [i \in DOMAIN h |-> IF i \in live THEN h[i] ELSE <<>>]

\* The zero SelfCollector, every goroutine idle, nothing sent.
Zero ==
  /\ self = Nil
  /\ descs = NilSlice
  /\ heap = <<>>
  /\ metricDesc = [m \in Metrics |-> IF m = "M1" THEN D1 ELSE D2]
  /\ pc = [p \in Callers |-> "idle"]
  /\ arg = [p \in Callers |-> Nil]
  /\ val = [p \in Callers |-> NoItem]
  /\ todo = [p \in Callers |-> 0]
  /\ ret = [p \in Callers |-> NoRet]
  /\ firstRet = NoFirst
  /\ buf = <<>>
  /\ drained = <<>>
  /\ initStarted = 0
  /\ initDone = 0
  /\ firstInit = NoInit
  /\ descCalls = 0
  /\ collects = 0
  /\ returned = {}
  /\ metricVal = [m \in Metrics |-> 0]
  /\ reads = <<>>
  /\ writes = 0

Init ==
  /\ Zero
  /\ cap \in 0..MaxCap
  /\ reader \in BOOLEAN
  /\ descPair = NoPair

\* ------------------------------------------------------------ the channel
\* ChanPut with a fault: the buffer is not bounded by the capacity.
ChanPutUnbounded(item) ==
  /\ buf' = Append(buf, item)
  /\ UNCHANGED drained

\* ChanPut with a fault: a full buffer drops its oldest item for the new one.
ChanPutOverwrite(item) ==
  /\ cap > 0
  /\ buf' = IF Len(buf) < cap THEN Append(buf, item)
                              ELSE Append(Tail(buf), item)
  /\ UNCHANGED drained

\* ch <- item with room in the buffer.
ChanPut(item) ==
  /\ Len(buf) < cap
  /\ buf' = Append(buf, item)
  /\ UNCHANGED drained

\* ChanHandoff with a fault: the reader takes the item sent while older items
\* wait in the buffer.
ChanHandoffPastBuffer(item) ==
  /\ reader
  /\ drained' = Append(drained, item)
  /\ UNCHANGED buf

\* ch <- item handed to the reader waiting in its receive.
ChanHandoff(item) ==
  /\ reader
  /\ buf = <<>>
  /\ drained' = Append(drained, item)
  /\ UNCHANGED buf

\* ChanSend with a fault: the send waits for room in the buffer and ignores a
\* reader waiting in its receive.
ChanSendBufferedOnly(item) == ChanPut(item)

\* ChanSend with a fault: select { case ch <- item: default: }, a send that
\* gives up instead of blocking.
ChanSendOrSkip(item) ==
  \/ ChanPut(item)
  \/ ChanHandoff(item)
  \/ Len(buf) >= cap /\ ~(reader /\ buf = <<>>) /\ UNCHANGED chanVars

\* ch <- item: the send blocks until one of the two is possible.
ChanSend(item) == ChanPut(item) \/ ChanHandoff(item)

\* The reader receives the oldest buffered item.
Recv ==
  /\ reader
  /\ buf # <<>>
  /\ drained' = Append(drained, Head(buf))
  /\ buf' = Tail(buf)
  /\ UNCHANGED <<todo, collectorVars, metricDesc, pc, arg, val, ret, firstRet,
                 envVars, initVars, collects, returned>>

\* ------------------------------------------------------------ the Metric
\* The Metric's Desc(): an interface method, here whatever it returns now.
Desc(m) == metricDesc[m]

\* The Metric's implementation starts returning another descriptor.
MetricChange(m, d) ==
  /\ metricDesc[m] # d
  /\ metricDesc' = [metricDesc EXCEPT ![m] = d]
  /\ UNCHANGED <<todo, collectorVars, pc, arg, val, ret, firstRet, chanVars,
                 envVars, initVars, collects, returned>>

\* ------------------------------------------------------- SelfCollector.Init
\* c.self = self
InitSelf(p, m) ==
  /\ pc[p] = "idle"
  /\ initStarted < MaxInits
  /\ self' = m
  /\ arg' = [arg EXCEPT ![p] = m]
  /\ pc' = [pc EXCEPT ![p] = "init_descs"]
  /\ initStarted' = initStarted + 1
  /\ firstRet' = NoFirst
  /\ UNCHANGED <<todo, descs, heap, metricDesc, val, ret, chanVars, envVars,
                 initDone, firstInit, descCalls, collects, returned>>

\* InitDescs with a fault: the descriptor is added to the slice there is,
\* c.descs = append(c.descs, self.Desc())
InitDescsAppend(p) ==
  /\ pc[p] = "init_descs"
  /\ descs' = [arr |-> Len(heap) + 1, len |-> descs.len + 1]
  /\ heap' = Sweep(Append(heap, Append(SliceVal(descs), Desc(arg[p]))),
                   Live(descs', ret))
  /\ descCalls' = descCalls + 1
  /\ initDone' = initDone + 1
  /\ firstInit' = IF initDone = 0 THEN [m |-> arg[p], d |-> Desc(arg[p])]
                                  ELSE firstInit
  /\ pc' = [pc EXCEPT ![p] = "idle"]
  /\ arg' = [arg EXCEPT ![p] = Nil]
  /\ UNCHANGED <<todo, self, metricDesc, val, ret, firstRet, chanVars, envVars,
                 initStarted, collects, returned>>

\* c.descs = []*Desc{self.Desc()}, and Init returns.
InitDescs(p) ==
  /\ pc[p] = "init_descs"
  /\ descs' = [arr |-> Len(heap) + 1, len |-> 1]
  /\ heap' = Sweep(Append(heap, <<Desc(arg[p])>>), Live(descs', ret))
  /\ descCalls' = descCalls + 1
  /\ initDone' = initDone + 1
  /\ firstInit' = IF initDone = 0 THEN [m |-> arg[p], d |-> Desc(arg[p])]
                                  ELSE firstInit
  /\ pc' = [pc EXCEPT ![p] = "idle"]
  /\ arg' = [arg EXCEPT ![p] = Nil]
  /\ UNCHANGED <<todo, self, metricDesc, val, ret, firstRet, chanVars, envVars,
                 initStarted, collects, returned>>

\* --------------------------------------------------- SelfCollector.Describe
\* DescribeResult with a fault: return []*Desc{c.self.Desc()}, the descriptor
\* asked of the metric on every call instead of the cached slice.
DescribeResultFresh ==
  [val |-> IF self = Nil THEN <<>> ELSE <<Desc(self)>>, hdr |-> descs,
   ep |-> Epoch, at |-> collects,
   stale |-> self # Nil /\ SliceVal(descs) # <<Desc(self)>>]

\* DescribeResult with a fault: return nil, the cached slice is not handed
\* back.
DescribeResultNone ==
  [val |-> <<>>, hdr |-> NilSlice, ep |-> Epoch, at |-> collects,
   stale |-> self # Nil /\ SliceVal(descs) # <<Desc(self)>>]

\* What a Describe call hands back: the slice header read from c.descs and
\* the elements it denotes, with the call's view of the wrapper.
DescribeResult ==
  [val |-> SliceVal(descs), hdr |-> descs, ep |-> Epoch, at |-> collects,
   stale |-> self # Nil /\ SliceVal(descs) # <<Desc(self)>>]

\* Describe with a fault: the descriptors are made on first use, not in Init:
\* if c.descs == nil { c.descs = []*Desc{c.self.Desc()} }; return c.descs
DescribeLazily(p) ==
  /\ pc[p] = "idle"
  /\ IF self # Nil /\ descs = NilSlice
       THEN /\ descs' = [arr |-> Len(heap) + 1, len |-> 1]
            /\ heap' = Append(heap, <<Desc(self)>>)
            /\ descCalls' = descCalls + 1
            /\ ret' = [ret EXCEPT ![p] =
                         [DescribeResult EXCEPT !.val = <<Desc(self)>>,
                                                !.hdr = descs']]
       ELSE /\ UNCHANGED <<descs, heap, descCalls>>
            /\ ret' = [ret EXCEPT ![p] = DescribeResult]
  /\ firstRet' = IF firstRet = NoFirst
                  THEN [val |-> ret'[p].val, ep |-> ret'[p].ep]
                  ELSE firstRet
  /\ pc' = [pc EXCEPT ![p] = "describe_ret"]
  /\ UNCHANGED <<todo, self, metricDesc, arg, val, chanVars, envVars,
                 initStarted, initDone, firstInit, collects, returned>>

\* Describe with a fault: the caller gets a copy of the cached slice,
\* return append([]*Desc(nil), c.descs...)
DescribeCopy(p) ==
  /\ pc[p] = "idle"
  /\ ret' = [ret EXCEPT ![p] =
               [DescribeResult EXCEPT
                  !.hdr = IF descs.len = 0 THEN NilSlice
                          ELSE [arr |-> Len(heap) + 1, len |-> descs.len]]]
  /\ heap' = IF descs.len = 0 THEN heap ELSE Append(heap, SliceVal(descs))
  /\ firstRet' = IF firstRet = NoFirst
                  THEN [val |-> DescribeResult.val, ep |-> DescribeResult.ep]
                  ELSE firstRet
  /\ pc' = [pc EXCEPT ![p] = "describe_ret"]
  /\ UNCHANGED <<todo, self, descs, metricDesc, arg, val, chanVars, envVars,
                 initVars, collects, returned>>

\* return c.descs
Describe(p) ==
  /\ pc[p] = "idle"
  /\ ret' = [ret EXCEPT ![p] = DescribeResult]
  /\ firstRet' = IF firstRet = NoFirst
                  THEN [val |-> DescribeResult.val, ep |-> DescribeResult.ep]
                  ELSE firstRet
  /\ pc' = [pc EXCEPT ![p] = "describe_ret"]
  /\ UNCHANGED <<todo, collectorVars, metricDesc, arg, val, chanVars, envVars,
                 initVars, collects, returned>>

\* The caller is done with what Describe returned.
DescribeRet(p) ==
  /\ pc[p] = "describe_ret"
  /\ ret' = [ret EXCEPT ![p] = NoRet]
  /\ heap' = Sweep(heap, Live(descs, ret'))
  /\ pc' = [pc EXCEPT ![p] = "idle"]
  /\ UNCHANGED <<todo, self, descs, metricDesc, arg, val, firstRet, chanVars,
                 envVars, initVars, collects, returned>>

\* ---------------------------------------------------- SelfCollector.Collect
\* CollectOperand with a fault: Collect is not reentrant, a call that finds
\* another call inside Collect reads no metric.
CollectOperandShared ==
  [m |-> IF \E q \in Callers : pc[q] \in {"collect_send", "collect_ret"}
           THEN Nil ELSE self,
   id |-> collects + 1, k |-> 1, once |-> Epoch = InitOnce]

\* CollectOperand with a fault: the send's operand is a copy of the metric
\* made for the call, not c.self.
CollectOperandCopy ==
  [m |-> "snap", id |-> collects + 1, k |-> 1, once |-> Epoch = InitOnce]

\* The operand of the send: c.self, tagged with the call that evaluated it
\* and whether that call saw the wrapper after its one Init.
CollectOperand ==
  [m |-> self, id |-> collects + 1, k |-> 1, once |-> Epoch = InitOnce]

\* CollectEval with a fault: Collect takes the metric out of the wrapper,
\* m := c.self; c.self = nil; ch <- m
CollectEvalTakes(p) ==
  /\ pc[p] = "idle"
  /\ collects < MaxCollects
  /\ collects' = collects + 1
  /\ val' = [val EXCEPT ![p] = CollectOperand]
  /\ self' = Nil
  /\ pc' = [pc EXCEPT ![p] = "collect_send"]
  /\ UNCHANGED <<todo, descs, heap, metricDesc, arg, ret, firstRet, chanVars,
                 envVars, initVars, returned>>

\* CollectEval with a fault: an uninitialized wrapper is not collected,
\* if c.self == nil { return }; ch <- c.self
CollectEvalGuarded(p) ==
  /\ pc[p] = "idle"
  /\ collects < MaxCollects
  /\ collects' = collects + 1
  /\ val' = [val EXCEPT ![p] = CollectOperand]
  /\ pc' = [pc EXCEPT ![p] = IF self = Nil THEN "collect_ret"
                                           ELSE "collect_send"]
  /\ UNCHANGED <<todo, collectorVars, metricDesc, arg, ret, firstRet, chanVars,
                 envVars, initVars, returned>>

\* ch <- c.self: the operand c.self is evaluated, then the send may block.
CollectEval(p) ==
  /\ pc[p] = "idle"
  /\ collects < MaxCollects
  /\ collects' = collects + 1
  /\ val' = [val EXCEPT ![p] = CollectOperand]
  /\ pc' = [pc EXCEPT ![p] = "collect_send"]
  /\ UNCHANGED <<todo, collectorVars, metricDesc, arg, ret, firstRet, chanVars,
                 envVars, initVars, returned>>

\* CollectSend with a fault: the send sits in a loop and is executed again.
CollectSendAgain(p) ==
  /\ pc[p] = "collect_send"
  /\ ChanSend(val[p])
  /\ UNCHANGED <<todo, collectorVars, metricDesc, pc, arg, val, ret, firstRet,
                 envVars, initVars, collects, returned>>

\* ch <- c.self: the send completes.
CollectSend(p) ==
  /\ pc[p] = "collect_send"
  /\ ChanSend(val[p])
  /\ pc' = [pc EXCEPT ![p] = "collect_ret"]
  /\ UNCHANGED <<todo, collectorVars, metricDesc, arg, val, ret, firstRet,
                 envVars, initVars, collects, returned>>

\* Collect returns to its caller.
CollectRet(p) ==
  /\ pc[p] = "collect_ret"
  /\ pc' = [pc EXCEPT ![p] = "idle"]
  /\ returned' = returned \cup {val[p].id}
  /\ val' = [val EXCEPT ![p] = NoItem]
  /\ UNCHANGED <<todo, collectorVars, metricDesc, arg, ret, firstRet, chanVars,
                 envVars, initVars, collects>>

Next ==
  \/ \E p \in Initializers, m \in Metrics : InitSelf(p, m)
  \/ \E p \in Initializers : InitDescs(p)
  \/ \E p \in Callers : Describe(p)
  \/ \E p \in Callers : DescribeRet(p)
  \/ \E p \in Callers : CollectEval(p)
  \/ \E p \in Callers : CollectSend(p)
  \/ \E p \in Callers : CollectRet(p)
  \/ Recv
  \/ \E m \in Metrics : \E d \in DescsOf(m) : MetricChange(m, d)

Spec == Init /\ [][Next]_vars

\* ------------------------------------------------------------- the claims
\* Everything handed to the channel so far, oldest first.
Sink == drained \o buf

\* How many snapshots Collect call id has handed to the channel.
Emitted(id) == Cardinality({i \in DOMAIN Sink : Sink[i].id = id})

\* The descriptors the wrapper has cached.
CachedDescs == SliceVal(descs)

\* C1: on a SelfCollector whose one Init(M) has returned, every Describe
\* returns the one-element sequence of the descriptor M.Desc() returned to
\* Init, and every Collect hands exactly one snapshot to the channel, M
\* itself, and then returns: none before the send, one after it, never two.
C1_DescribeAndCollectOfInitialized ==
  /\ \A p \in Callers :
       pc[p] = "describe_ret" /\ ret[p].ep = InitOnce
         => ret[p].val = <<firstInit.d>>
  /\ \A p \in Callers :
       pc[p] = "collect_send" /\ val[p].once
         => val[p].m = firstInit.m /\ Emitted(val[p].id) = 0
  /\ \A p \in Callers :
       pc[p] = "collect_ret" /\ val[p].once => Emitted(val[p].id) = 1
  /\ \A i \in DOMAIN Sink :
       Sink[i].once
         => Sink[i].m = firstInit.m /\ Sink[i].k = 1
            /\ Emitted(Sink[i].id) = 1
  /\ \A id \in returned : Emitted(id) = 1

\* C1's case: a Describe result and a returned Collect call's snapshot, both
\* of the wrapper after its one Init.
C1_Witness ==
  /\ \E p \in Callers : pc[p] = "describe_ret" /\ ret[p].ep = InitOnce
  /\ \E i \in DOMAIN drained : drained[i].once /\ drained[i].id \in returned

\* C2: Collect returns only after its snapshot has been accepted by the
\* channel, that is received by the reader or placed in a free buffer slot:
\* no Collect call is about to return or has returned with its snapshot not
\* in the buffer and not received, and the buffer never holds more than its
\* capacity.
C2_ReturnAfterHandOff ==
  /\ \A p \in Callers :
       pc[p] = "collect_ret"
         => \E i \in DOMAIN Sink : Sink[i] = val[p]
  /\ \A id \in returned : \E i \in DOMAIN Sink : Sink[i].id = id
  /\ \A p \in Callers :
       pc[p] = "collect_send" => val[p].id \notin returned
  /\ Len(buf) <= cap

\* C2's case: a Collect call returned while its snapshot still sits in the
\* buffer, and another returned after the reader received its snapshot.
C2_Witness ==
  /\ \E i \in DOMAIN buf : buf[i].id \in returned
  /\ \E i \in DOMAIN drained : drained[i].id \in returned


\* No Init call is running in the view ep of the wrapper.
Stable(ep) == ep[1] = ep[2]

\* C3: Describe is idempotent: any two Describe calls made while no Init
\* call runs and with no Init call between them, whatever Collect and
\* Describe calls and changes of the metric lie between them, return
\* sequences with equal fingerprint sets. Each result is compared with the
\* first one since the last Init and with the result another goroutine
\* holds.
C3_DescribeIdempotent ==
  /\ \A p \in Callers :
       pc[p] = "describe_ret" /\ Stable(ret[p].ep) /\ ret[p].ep = firstRet.ep
         => FpSet(ret[p].val) = FpSet(firstRet.val)
  /\ \A p, q \in Callers :
       pc[p] = "describe_ret" /\ pc[q] = "describe_ret"
       /\ Stable(ret[p].ep) /\ ret[p].ep = ret[q].ep
         => FpSet(ret[p].val) = FpSet(ret[q].val)

\* C3's case: two Describe calls on the initialized wrapper with a Collect
\* call begun between them, the later one made after the metric's Desc()
\* changed.
C3_Witness ==
  \E p, q \in Callers :
    /\ pc[p] = "describe_ret" /\ pc[q] = "describe_ret"
    /\ ret[p].ep = InitOnce /\ ret[q].ep = InitOnce
    /\ ret[p].at < ret[q].at
    /\ ~ret[p].stale /\ ret[q].stale

\* The wrapper is ready: Init has been called and has returned.
Ready == initDone >= 1 /\ initStarted = initDone

\* C4 as stated: once the wrapper is ready, no step of Init, Describe or
\* Collect changes the stored metric reference or the cached descriptors.
C4_ReadyIsTerminal ==
  [][Ready => self' = self /\ CachedDescs' = CachedDescs]_vars

\* C4 as amended: the wrapper starts uninitialized and its one Init takes it
\* to ready with the metric given and that metric's descriptor; no step of
\* Describe or Collect changes the metric reference or the cached
\* descriptors; they change only in a step of Init, also of a further Init
\* on a ready wrapper, which stores its argument and then the one-element
\* sequence of its argument's Desc().
C4_ChangedOnlyByInit ==
  /\ [](initStarted = 0 => self = Nil /\ CachedDescs = <<>>)
  /\ [](Epoch = InitOnce
          => self = firstInit.m /\ CachedDescs = <<firstInit.d>>)
  /\ [][/\ self' # self
           => \E p \in Callers :
                /\ pc[p] = "idle" /\ pc'[p] = "init_descs"
                /\ self' = arg'[p]
        /\ CachedDescs' # CachedDescs
           => \E p \in Callers :
                /\ pc[p] = "init_descs" /\ pc'[p] = "idle"
                /\ CachedDescs' = <<Desc(arg[p])>>]_vars

\* C4's case: a second Init on the ready wrapper has replaced the metric and
\* the descriptors, with Collect and Describe calls made as well.
C4_Witness ==
  /\ Epoch = <<2, 2>>
  /\ self # firstInit.m
  /\ CachedDescs # <<firstInit.d>>
  /\ returned # {}
  /\ firstRet # NoFirst

\* C5: the metric's Desc() is invoked once by each Init and by nothing else,
\* so exactly once when Init is called once; Describe allocates nothing and
\* returns the slice Init stored, whose element is the descriptor Init got,
\* also when the metric's Desc() would by now return another one.
C5_DescOnlyAtInit ==
  /\ descCalls = initDone
  /\ Len(heap) = initDone
  /\ Epoch = InitOnce => descCalls = 1
  /\ \A p \in Callers :
       pc[p] = "describe_ret" /\ ret[p].ep = InitOnce
         => /\ ret[p].hdr = [arr |-> 1, len |-> 1]
            /\ ret[p].val = <<firstInit.d>>

\* C5's case: a Describe call made after the initialized metric's Desc()
\* started returning another descriptor.
C5_Witness ==
  \E p \in Callers :
    /\ pc[p] = "describe_ret"
    /\ ret[p].ep = InitOnce
    /\ ret[p].stale
    /\ Desc(firstInit.m) # firstInit.d
    /\ descCalls = 1

\* ------------------------------------------- a multi-metric Collector.Collect
\* A Collector that collects several metrics: its Collect sends its
\* snapshots, a number known when it runs, one after the other, and returns
\* once the last has been sent.
Snapshot(id, k) == [m |-> "snap", id |-> id, k |-> k, once |-> FALSE]

\* Collect is called with n metrics to collect; the first snapshot is ready.
VecStart(p, n) ==
  /\ pc[p] = "idle"
  /\ collects < MaxCollects
  /\ collects' = collects + 1
  /\ val' = [val EXCEPT ![p] = Snapshot(collects + 1, 1)]
  /\ todo' = [todo EXCEPT ![p] = n]
  /\ pc' = [pc EXCEPT ![p] = IF n = 0 THEN "vec_ret" ELSE "vec_send"]
  /\ UNCHANGED <<collectorVars, metricDesc, arg, ret, firstRet, chanVars,
                 envVars, initVars, returned>>

\* ch <- the next snapshot; after the last one Collect is about to return.
VecSend(p) ==
  /\ pc[p] = "vec_send"
  /\ ChanSend(val[p])
  /\ IF val[p].k = todo[p]
       THEN pc' = [pc EXCEPT ![p] = "vec_ret"] /\ UNCHANGED val
       ELSE val' = [val EXCEPT ![p] = Snapshot(val[p].id, val[p].k + 1)]
            /\ UNCHANGED pc
  /\ UNCHANGED <<todo, collectorVars, metricDesc, arg, ret, firstRet, envVars,
                 initVars, collects, returned>>

\* Collect returns to its caller.
VecRet(p) ==
  /\ pc[p] = "vec_ret"
  /\ pc' = [pc EXCEPT ![p] = "idle"]
  /\ returned' = returned \cup {val[p].id}
  /\ val' = [val EXCEPT ![p] = NoItem]
  /\ todo' = [todo EXCEPT ![p] = 0]
  /\ UNCHANGED <<collectorVars, metricDesc, arg, ret, firstRet, chanVars,
                 envVars, initVars, collects>>

\* Several goroutines collect multi-metric Collectors into one channel.
NextVec ==
  \/ \E p \in Callers, n \in 0..MaxEmit : VecStart(p, n)
  \/ \E p \in Callers : VecSend(p)
  \/ \E p \in Callers : VecRet(p)
  \/ Recv

SpecVec == Init /\ [][NextVec]_vars

\* One goroutine initializes the SelfCollector and collects a multi-metric
\* Collector of NumEmit metrics while the others collect the SelfCollector
\* into the same channel; the scheduler runs every goroutine that can take a
\* step.
NextOne ==
  \/ \E m \in Metrics : InitSelf("g1", m)
  \/ InitDescs("g1")
  \/ VecStart("g1", NumEmit)
  \/ VecSend("g1")
  \/ VecRet("g1")
  \/ \E p \in Callers \ {"g1"} : CollectEval(p)
  \/ \E p \in Callers \ {"g1"} : CollectSend(p)
  \/ \E p \in Callers \ {"g1"} : CollectRet(p)
  \/ Recv

LiveSpecOne ==
  /\ Init
  /\ [][NextOne]_vars
  /\ WF_vars(Recv)
  /\ WF_vars(VecSend("g1")) /\ WF_vars(VecRet("g1"))
  /\ \A p \in Callers : WF_vars(CollectSend(p)) /\ WF_vars(CollectRet(p))

\* The SelfCollector's Init and Collect with the reader; the scheduler runs
\* every goroutine that can take a step.
NextCollect ==
  \/ \E p \in Initializers, m \in Metrics : InitSelf(p, m)
  \/ \E p \in Initializers : InitDescs(p)
  \/ \E p \in Callers : CollectEval(p)
  \/ \E p \in Callers : CollectSend(p)
  \/ \E p \in Callers : CollectRet(p)
  \/ Recv

LiveSpec ==
  /\ Init
  /\ [][NextCollect]_vars
  /\ WF_vars(Recv)
  /\ \A p \in Callers : WF_vars(CollectSend(p)) /\ WF_vars(CollectRet(p))

\* ----------------------------------------------- the claims on the channel
\* The snapshots of Collect call id in seq, in order.
OfCall(seq, id) == SelectSeq(seq, LAMBDA x : x.id = id)

\* The snapshots of call id in seq are its first, second, ... in that order.
InOrder(seq, id) ==
  LET mine == OfCall(seq, id) IN \A i \in DOMAIN mine : mine[i].k = i

\* The reader has received every snapshot of the multi-metric call id.
ReceivedAll(id) == Len(OfCall(drained, id)) = NumEmit

\* C6: a Collect that emits NumEmit snapshots into a channel of bounded
\* capacity (0..MaxCap, which includes 1) with a concurrent reader: what the
\* reader received of the call is always in emission order, the call and
\* the reader are never both blocked, and the call returns with all its
\* snapshots received.
C6_BoundedSinkHandOff ==
  /\ [](\A id \in 1..collects : InOrder(drained, id))
  /\ [](reader /\ pc["g1"] = "vec_send"
          => ENABLED VecSend("g1") \/ ENABLED Recv)
  /\ \A id \in 1..MaxCollects :
       (reader /\ pc["g1"] = "vec_send" /\ val["g1"].id = id)
         ~> (id \in returned /\ ReceivedAll(id) /\ InOrder(drained, id))

\* C6's case: capacity 1, and a call that emitted NumEmit snapshots has
\* returned with all of them received.
C6_Witness ==
  /\ reader /\ cap = 1
  /\ \E id \in returned : ReceivedAll(id) /\ InOrder(drained, id)

\* C7: a Collect whose send finds no free buffer slot and no reader is
\* blocked and stays blocked in every later state; a send completes only
\* into a free slot or into the hands of the reader; and with a free slot
\* the send can complete, reader or not.
C7_BlocksWithoutReader ==
  /\ [](\A p \in Callers :
          pc[p] = "collect_send"
            => /\ Len(buf) < cap => ENABLED CollectSend(p)
               /\ ~reader /\ Len(buf) >= cap => ~ENABLED CollectSend(p))
  /\ [][\A p \in Callers :
          /\ pc[p] = "collect_send" /\ ~reader /\ Len(buf) >= cap
               => pc'[p] = "collect_send" /\ ~reader' /\ Len(buf') >= cap'
          /\ pc[p] = "collect_send" /\ pc'[p] # "collect_send"
               => \/ Len(buf) < cap /\ buf' = Append(buf, val[p])
                  \/ reader /\ drained' = Append(drained, val[p])]_vars

\* C7's case: no reader, one Collect returned through the free buffer slot
\* and another is blocked on the full buffer.
C7_Witness ==
  /\ ~reader /\ cap = 1 /\ Len(buf) = 1
  /\ buf[1].id \in returned
  /\ \E p \in Callers : pc[p] = "collect_send"

\* C8: in a channel shared by concurrent Collect calls, the snapshots of each
\* call are handed over and received in that call's emission order; between
\* calls the channel prefers none: whenever one blocked call can send,
\* every other one can.
C8_PerCallOrder ==
  /\ \A id \in 1..collects : InOrder(drained, id) /\ InOrder(Sink, id)
  /\ \A p, q \in Callers :
       pc[p] = "vec_send" /\ pc[q] = "vec_send"
         => (ENABLED VecSend(p) <=> ENABLED VecSend(q))

\* C8's case: the reader received snapshots of two calls interleaved, the
\* call begun later first.
C8_Witness ==
  \E i, j, k \in DOMAIN drained :
    /\ i < j /\ j < k
    /\ drained[i].id = 2 /\ drained[j].id = 1 /\ drained[k].id = 2
    /\ drained[j].k > 1

\* C9: goroutines calling Collect and Describe concurrently on the wrapper
\* after its one Init leave the metric reference and the cached descriptors
\* as Init stored them, every Describe returns the descriptor of Init, every
\* Collect sends the metric of Init, and the channel has been handed one
\* snapshot per Collect call whose send completed: as many as calls made,
\* once no call is inside Collect.
C9_ConcurrentUseSafe ==
  /\ Epoch = InitOnce
       => /\ self = firstInit.m
          /\ descs = [arr |-> 1, len |-> 1]
          /\ heap[1] = <<firstInit.d>>
  /\ \A p \in Callers :
       pc[p] = "describe_ret" /\ ret[p].ep = InitOnce
         => ret[p].val = <<firstInit.d>>
            /\ SliceVal(ret[p].hdr) = <<firstInit.d>>
  /\ \A p \in Callers :
       pc[p] \in {"collect_send", "collect_ret"} /\ val[p].once
         => val[p].m = firstInit.m
  /\ \A i \in DOMAIN Sink : Sink[i].once => Sink[i].m = firstInit.m
  /\ Len(Sink) = Cardinality(returned)
                 + Cardinality({p \in Callers : pc[p] = "collect_ret"})
  /\ (\A p \in Callers : pc[p] \notin {"collect_send", "collect_ret"})
       => Len(Sink) = collects

\* C9's case: two goroutines inside Collect at the same time on the
\* initialized wrapper, both sends completed.
C9_Witness ==
  /\ \A p \in Callers : pc[p] = "collect_ret" /\ val[p].once
  /\ Len(Sink) = Cardinality(Callers)

\* C10: with a reader that keeps receiving and a scheduler that runs every
\* goroutine able to step, every Collect call waiting in its send returns,
\* whatever the capacity of the channel, 0 included.
C10_CollectReturns ==
  \A id \in 1..MaxCollects :
    (reader /\ \E p \in Callers : pc[p] = "collect_send" /\ val[p].id = id)
      ~> (id \in returned)

\* C10's case: an unbuffered channel, and every Collect call of the run has
\* returned.
C10_Witness ==
  /\ reader /\ cap = 0
  /\ returned = 1..MaxCollects

\* ------------------------------------------ metrics of one fixed descriptor
\* The SelfCollector used with Metrics whose Desc() returns the same
\* descriptor on every call.
NextFixed ==
  \/ \E p \in Initializers, m \in Metrics : InitSelf(p, m)
  \/ \E p \in Initializers : InitDescs(p)
  \/ \E p \in Callers : Describe(p)
  \/ \E p \in Callers : DescribeRet(p)
  \/ \E p \in Callers : CollectEval(p)
  \/ \E p \in Callers : CollectSend(p)
  \/ \E p \in Callers : CollectRet(p)
  \/ Recv

SpecFixed == Init /\ [][NextFixed]_vars

MetricInc ==
  /\ self # Nil
  /\ metricVal[self] < MaxValue
  /\ metricVal' = [metricVal EXCEPT ![self] = metricVal[self] + 1]
  /\ UNCHANGED <<todo, collectorVars, metricDesc, pc, arg, val, ret, firstRet,
                 chanVars, cap, reader, reads, writes, descPair, initVars,
                 collects, returned>>

\* The object a snapshot is: what was sent is a reference, and two
\* snapshots are one object when the references are equal.
Object(x) == x.m

\* The value the consumer reads from a snapshot now, through the reference.
ValueRead(x) == metricVal[Object(x)]

\* The consumer reads the value of the first snapshot it received.
ConsumerRead ==
  /\ reader
  /\ drained # <<>>
  /\ Object(drained[1]) \in Metrics
  /\ Len(reads) < MaxReads
  /\ reads' = Append(reads, ValueRead(drained[1]))
  /\ UNCHANGED <<todo, collectorVars, metricDesc, pc, arg, val, ret, firstRet,
                 chanVars, cap, reader, metricVal, writes, descPair, initVars,
                 collects, returned>>

\* The SelfCollector, initialized by one goroutine and collected by the
\* others, while producer code changes the metric and the consumer reads
\* what it received.
NextValue ==
  \/ \E p \in Initializers, m \in Metrics : InitSelf(p, m)
  \/ \E p \in Initializers : InitDescs(p)
  \/ \E p \in Callers \ Initializers : CollectEval(p)
  \/ \E p \in Callers \ Initializers : CollectSend(p)
  \/ \E p \in Callers \ Initializers : CollectRet(p)
  \/ Recv
  \/ MetricInc
  \/ ConsumerRead

SpecValue == Init /\ [][NextValue]_vars

\* C12 as stated, for the wrapper after its one Init: the snapshots received
\* in different Collect calls are distinct objects, and what the consumer
\* reads from a snapshot it has received is the same at every read,
\* whatever producer code does to the metric meanwhile.
C12_FreshImmutable ==
  /\ \A i, j \in DOMAIN drained :
       drained[i].once /\ drained[j].once /\ drained[i].id # drained[j].id
         => Object(drained[i]) # Object(drained[j])
  /\ \A i, j \in DOMAIN reads : reads[i] = reads[j]

\* C12 as amended: the snapshot Collect sends is the stored metric reference
\* itself, so the snapshots of all Collect calls on the wrapper after its
\* one Init are one object, the metric; what the consumer reads from a
\* received snapshot is the metric's value at the time of the read; and no
\* step of Init or Collect, and no receive, changes the metric's value.
C12_SharedReference ==
  /\ [](\A i \in DOMAIN Sink : Sink[i].once => Object(Sink[i]) = firstInit.m)
  /\ [](\A i, j \in DOMAIN drained :
          drained[i].once /\ drained[j].once
            => Object(drained[i]) = Object(drained[j]))
  /\ [][reads' # reads
         => reads' = Append(reads, metricVal[Object(drained[1])])]_vars
  /\ [][metricVal' # metricVal
         => UNCHANGED <<pc, collectorVars, chanVars, reads>>]_vars

\* C12's case: the consumer read two different values from one received
\* snapshot, and has received the snapshots of two Collect calls on the
\* initialized wrapper.
C12_Witness ==
  /\ Len(reads) = 2 /\ reads[1] # reads[2]
  /\ \E i, j \in DOMAIN drained :
       drained[i].once /\ drained[j].once /\ drained[i].id # drained[j].id

\* ------------------------------------------- a vector Collector and a merge
\* The values of the variable label "instance", in the order the vector
\* Collector goes through them, and the one descriptor it declares.
Instances == <<"a", "b", "c">>
InstanceAt(k) == Instances[((k - 1) % Len(Instances)) + 1]
DInst ==
  [name |-> "v", help |-> "h", labels |-> <<"instance">>, consts |-> {}]

\* A snapshot of the vector Collector: the k-th of Collect call id, with
\* the k-th value of the label "instance".
LabelledSnapshot(id, k) ==
  [m |-> "snap", id |-> id, k |-> k, once |-> FALSE, inst |-> InstanceAt(k)]

\* The vector Collector's Collect is called with n snapshots to emit: more
\* than there are instances, and it emits an instance again.
VecStartLabelled(p, n) ==
  /\ pc[p] = "idle"
  /\ collects < MaxCollects
  /\ collects' = collects + 1
  /\ val' = [val EXCEPT ![p] = LabelledSnapshot(collects + 1, 1)]
  /\ todo' = [todo EXCEPT ![p] = n]
  /\ pc' = [pc EXCEPT ![p] = IF n = 0 THEN "vec_ret" ELSE "vec_send"]
  /\ UNCHANGED <<collectorVars, metricDesc, arg, ret, firstRet, chanVars,
                 envVars, initVars, returned>>

\* ch <- the next snapshot; after the last one Collect is about to return.
VecSendLabelled(p) ==
  /\ pc[p] = "vec_send"
  /\ ChanSend(val[p])
  /\ IF val[p].k = todo[p]
       THEN pc' = [pc EXCEPT ![p] = "vec_ret"] /\ UNCHANGED val
       ELSE val' = [val EXCEPT ![p] =
                      LabelledSnapshot(val[p].id, val[p].k + 1)]
            /\ UNCHANGED pc
  /\ UNCHANGED <<todo, collectorVars, metricDesc, arg, ret, firstRet, envVars,
                 initVars, collects, returned>>

\* The descriptor and the label values a received snapshot carries.
\* The nil Metric has no descriptor.
NoDesc == [name |-> "", help |-> "", labels |-> <<>>, consts |-> {}]
DescOf(x) ==
  IF x.m = "snap" THEN DInst ELSE IF x.m = Nil THEN NoDesc ELSE Desc(x.m)
LabelValues(x) == IF x.m = "snap" THEN <<x.inst>> ELSE <<>>

\* What the merge tells snapshots apart by.
MergeKey(x) == <<Fingerprint(DescOf(x)), LabelValues(x)>>

\* The merge of the snapshots of one Collect call, in the order received:
\* the keys accepted and the positions flagged as duplicates.
RECURSIVE Merge(_)
Merge(seq) ==
  IF seq = <<>>
    THEN [seen |-> {}, dup |-> {}]
    ELSE LET r == Merge(SubSeq(seq, 1, Len(seq) - 1))
             key == MergeKey(seq[Len(seq)])
         IN  IF key \in r.seen
               THEN [r EXCEPT !.dup = @ \cup {Len(seq)}]
               ELSE [r EXCEPT !.seen = @ \cup {key}]

\* One goroutine initializes the SelfCollector and collects the vector
\* Collector, the others collect the SelfCollector, into one channel.
NextMerge ==
  \/ \E m \in Metrics : InitSelf("g1", m)
  \/ InitDescs("g1")
  \/ \E n \in 0..MaxLabelled : VecStartLabelled("g1", n)
  \/ VecSendLabelled("g1")
  \/ VecRet("g1")
  \/ \E p \in Callers \ {"g1"} : CollectEval(p)
  \/ \E p \in Callers \ {"g1"} : CollectSend(p)
  \/ \E p \in Callers \ {"g1"} : CollectRet(p)
  \/ Recv

SpecMerge == Init /\ [][NextMerge]_vars

\* The label values of a sequence of snapshots.
InstancesOf(seq) == [i \in DOMAIN seq |-> LabelValues(seq[i])]

\* C13: one Collect call of the SelfCollector never emits two snapshots with
\* the same descriptor and label values: the merge of what the reader
\* received of it flags nothing. Of a vector Collect call the merge flags
\* exactly the snapshots whose descriptor and label values an earlier
\* snapshot of the call had: it accepts instance = "a", "b", "c", and flags
\* a fourth snapshot with instance = "a".
C13_NoDuplicates ==
  \A id \in 1..collects :
    LET mine == OfCall(drained, id)
        r == Merge(mine)
    IN  /\ (\A i \in DOMAIN mine : mine[i].m # "snap")
             => Len(mine) <= 1 /\ r.dup = {}
        /\ r.dup = {k \in DOMAIN mine :
                      \E j \in 1..(k - 1) :
                        /\ DescOf(mine[j]) = DescOf(mine[k])
                        /\ LabelValues(mine[j]) = LabelValues(mine[k])}
        /\ InstancesOf(mine) = <<<<"a">>, <<"b">>, <<"c">>>> => r.dup = {}
        /\ InstancesOf(mine) = <<<<"a">>, <<"b">>, <<"c">>, <<"a">>>>
             => r.dup = {4}

\* C13's case: the reader received instance = "a", "b", "c", "a" of one
\* vector Collect call and the snapshot of a SelfCollector Collect call.
C13_Witness ==
  /\ \E id \in 1..collects :
       InstancesOf(OfCall(drained, id)) = <<<<"a">>, <<"b">>, <<"c">>, <<"a">>>>
  /\ \E i \in DOMAIN drained : drained[i].m \in Metrics

\* ------------------------------------------------ constructing descriptors
\* What a Descriptor is constructed from: a name, a help text, the variable
\* label names in declared order, and the constant labels, a set of pairs
\* <<name, value>> with one value for a name.
DescNames == {"", "n1", "n2"}
HelpTexts == {"h1", "h2"}
LabelSeqs == {<<>>, <<"x">>, <<"y">>, <<"x", "y">>, <<"y", "x">>}
ConstNames == {"x", "k"}
ConstValues == {"1", "2"}
ConstMaps ==
  {cs \in SUBSET (ConstNames \X ConstValues) :
     \A c1, c2 \in cs : c1[1] = c2[1] => c1 = c2}
DescInputs ==
  [name : DescNames, help : HelpTexts, labels : LabelSeqs, consts : ConstMaps]

NotMade == [ok |-> FALSE, made |-> FALSE]
Invalid == [ok |-> FALSE, made |-> TRUE]

\* The construction of a Descriptor: a validation error for an empty name
\* or a label name both constant and variable, else the descriptor with
\* its fingerprint computed and stored.
NewDesc(in) ==
  IF \/ in.name = ""
     \/ \E c \in in.consts : c[1] \in Range(in.labels)
    THEN Invalid
    ELSE [ok |-> TRUE, made |-> TRUE, desc |-> in, fp |-> Fingerprint(in)]

\* Two descriptors are to be constructed, from any two inputs.
InitDesc ==
  /\ Zero
  /\ cap = 0
  /\ reader = FALSE
  /\ descPair \in [in : DescInputs \X DescInputs, out : {<<NotMade, NotMade>>}]

\* The i-th descriptor is constructed.
Construct(i) ==
  /\ ~descPair.out[i].made
  /\ descPair' = [descPair EXCEPT !.out[i] = NewDesc(descPair.in[i])]
  /\ UNCHANGED <<todo, collectorVars, metricDesc, pc, arg, val, ret, firstRet,
                 chanVars, cap, reader, metricVal, reads, writes, initVars,
                 collects, returned>>

NextDesc == \E i \in 1..2 : Construct(i)

SpecDesc == InitDesc /\ [][NextDesc]_vars

\* Both descriptors have been constructed, without a validation error.
BothMade == descPair.out[1].ok /\ descPair.out[2].ok

\* C14: two descriptors constructed with the same name, the same set of
\* variable label names, declared in any order, and the same constant
\* labels have equal fingerprints, whatever their help texts.
C14_FingerprintDeterministic ==
  BothMade
    => LET a == descPair.out[1]
           b == descPair.out[2]
       IN  (/\ a.desc.name = b.desc.name
            /\ Range(a.desc.labels) = Range(b.desc.labels)
            /\ a.desc.consts = b.desc.consts)
             => a.fp = b.fp

\* C14's case: two descriptors that differ only in the declared order of
\* their variable labels and in the help text, with equal fingerprints.
C14_Witness ==
  /\ BothMade
  /\ descPair.out[1].desc.labels = <<"x", "y">>
  /\ descPair.out[2].desc.labels = <<"y", "x">>
  /\ descPair.out[1].desc.name = descPair.out[2].desc.name
  /\ descPair.out[1].desc.consts = descPair.out[2].desc.consts
  /\ descPair.out[1].desc.consts # {}
  /\ descPair.out[1].desc.help # descPair.out[2].desc.help
  /\ descPair.out[1].fp = descPair.out[2].fp

\* C15: two descriptors with the same name whose sets of variable label
\* names differ, or whose constant labels differ in a name or in a value,
\* have different fingerprints.
C15_FingerprintDiscriminates ==
  BothMade
    => LET a == descPair.out[1]
           b == descPair.out[2]
       IN  (/\ a.desc.name = b.desc.name
            /\ \/ Range(a.desc.labels) # Range(b.desc.labels)
               \/ a.desc.consts # b.desc.consts)
             => a.fp # b.fp

\* C15's case: two descriptors that differ only in the value of a constant
\* label, with different fingerprints.
C15_Witness ==
  /\ BothMade
  /\ descPair.out[1].desc.name = descPair.out[2].desc.name
  /\ descPair.out[1].desc.labels = descPair.out[2].desc.labels
  /\ descPair.out[1].desc.consts = {<<"k", "1">>}
  /\ descPair.out[2].desc.consts = {<<"k", "2">>}
  /\ descPair.out[1].fp # descPair.out[2].fp

\* ------------------------------------------------ use before initialization
\* The channel can take a send now.
CanSend == Len(buf) < cap \/ (reader /\ buf = <<>>)

\* C16: on a SelfCollector on which Init was never called, Describe and
\* Collect are not rejected: Describe returns the empty (nil) sequence, and
\* Collect sends the nil metric reference like any other, one snapshot at
\* the send, none before, and then returns; no call ends in an error.
C16_UseBeforeInit ==
  /\ \A p \in Callers :
       pc[p] \in {"idle", "init_descs", "describe_ret", "collect_send",
                  "collect_ret"}
  /\ initStarted = 0
       => /\ \A p \in Callers :
               pc[p] = "idle"
                 => /\ ENABLED Describe(p)
                    /\ collects < MaxCollects => ENABLED CollectEval(p)
          /\ \A i \in DOMAIN Sink : Sink[i].m = Nil
          /\ Len(Sink) = Cardinality(returned)
                         + Cardinality({p \in Callers : pc[p] = "collect_ret"})
  /\ \A p \in Callers :
       pc[p] = "describe_ret" /\ ret[p].ep = <<0, 0>>
         => ret[p].val = <<>> /\ ret[p].hdr = NilSlice
  /\ \A p \in Callers :
       val[p].m = Nil
         => /\ pc[p] = "collect_send"
                 => /\ Emitted(val[p].id) = 0
                    /\ CanSend => ENABLED CollectSend(p)
            /\ pc[p] = "collect_ret"
                 => Emitted(val[p].id) = 1 /\ ENABLED CollectRet(p)
  /\ \A i \in DOMAIN Sink : Sink[i].m = Nil => Emitted(Sink[i].id) = 1
  /\ \A id \in returned : Emitted(id) = 1

\* C16's case: Init was never called, a Collect call has returned with the
\* nil metric reference received by the reader, and a caller holds the
\* empty sequence Describe returned.
C16_Witness ==
  /\ initStarted = 0
  /\ \E i \in DOMAIN drained :
       drained[i].m = Nil /\ drained[i].id \in returned
  /\ \E p \in Callers : pc[p] = "describe_ret" /\ ret[p].val = <<>>

\* ------------------------------------- callers and the slice Describe returns
\* ds[0] = d: a caller overwrites the element of the slice it got from
\* Describe, in the array the slice header points to.
CallerWrite(p, d) ==
  /\ pc[p] = "describe_ret"
  /\ ret[p].hdr.len >= 1
  /\ writes < MaxWrites
  /\ heap[ret[p].hdr.arr][1] # d
  /\ heap' = [heap EXCEPT ![ret[p].hdr.arr] = [@ EXCEPT ![1] = d]]
  /\ writes' = writes + 1
  /\ UNCHANGED <<todo, self, descs, metricDesc, pc, arg, val, ret, firstRet,
                 chanVars, cap, reader, metricVal, reads, descPair, initVars,
                 collects, returned>>

\* ds = append(ds, d): the slice Describe returned has no spare capacity
\* (a nil slice, or len = cap = 1 of the literal []*Desc{...}), so append
\* copies the elements into a new array, which the caller's header then
\* points to.
CallerAppend(p, d) ==
  /\ pc[p] = "describe_ret"
  /\ ret[p].hdr \in {NilSlice, descs}
  /\ Len(heap) < MaxInits + MaxAppends
  /\ ret' = [ret EXCEPT ![p].hdr =
               [arr |-> Len(heap) + 1, len |-> ret[p].hdr.len + 1]]
  /\ heap' = Append(heap, Append(SliceVal(ret[p].hdr), d))
  /\ UNCHANGED <<todo, self, descs, metricDesc, pc, arg, val, firstRet,
                 chanVars, envVars, initVars, collects, returned>>

\* Init and Describe, with callers that write into and append to what
\* Describe returned.
NextAlias ==
  \/ \E p \in Initializers, m \in Metrics : InitSelf(p, m)
  \/ \E p \in Initializers : InitDescs(p)
  \/ \E p \in Callers : Describe(p)
  \/ \E p \in Callers : DescribeRet(p)
  \/ \E p \in Callers, d \in Descs : CallerWrite(p, d)
  \/ \E p \in Callers, d \in Descs : CallerAppend(p, d)

\* No channel is involved.
InitAlias ==
  /\ Zero
  /\ cap = 0
  /\ reader = FALSE
  /\ descPair = NoPair

SpecAlias == InitAlias /\ [][NextAlias]_vars

\* C17 as stated: whatever callers do with the sequences Describe returned,
\* the wrapper after its one Init keeps the descriptor captured at Init
\* cached, and every Describe returns it.
C17_DescribeIsolated ==
  /\ Epoch = InitOnce => CachedDescs = <<firstInit.d>>
  /\ \A p \in Callers :
       pc[p] = "describe_ret" /\ ret[p].ep = InitOnce
         => ret[p].val = <<firstInit.d>>

\* C17 as amended: Describe returns the wrapper's own slice header, which
\* shares its one-element array with the cache. No caller changes the
\* wrapper's metric reference or slice header, and an append by a caller
\* goes to a new array; the cached element changes only in Init or when a
\* caller holding a slice on the cache's array overwrites its element, and
\* every later Describe returns the cache as it then is. Until a caller
\* writes, that is the descriptor captured at Init.
C17_SharedBackingArray ==
  /\ [][self' # self \/ descs' # descs
         => \E p \in Callers :
              \/ pc[p] = "idle" /\ pc'[p] = "init_descs"
              \/ pc[p] = "init_descs" /\ pc'[p] = "idle"]_vars
  /\ [](Epoch = InitOnce /\ writes = 0
          => self = firstInit.m /\ CachedDescs = <<firstInit.d>>)
  /\ [][\A p \in Callers :
          pc[p] = "idle" /\ pc'[p] = "describe_ret"
            => ret'[p].hdr = descs /\ ret'[p].val = CachedDescs]_vars
  /\ [][CachedDescs' # CachedDescs
         => \/ \E p \in Callers : pc[p] = "init_descs" /\ pc'[p] = "idle"
            \/ /\ writes' = writes + 1
               /\ \E p \in Callers :
                    /\ pc[p] = "describe_ret"
                    /\ ret[p].hdr.arr = descs.arr
                    /\ SliceVal(ret[p].hdr)' = CachedDescs']_vars

\* C17's case: after a caller overwrote the element of the slice it got, a
\* Describe call on the wrapper, initialized once, returned another
\* descriptor than the one captured at Init, while another caller's
\* appended slice is an array of its own.
C17_Witness ==
  /\ Epoch = InitOnce
  /\ writes >= 1
  /\ \E p, q \in Callers :
       /\ pc[p] = "describe_ret" /\ ret[p].ep = InitOnce
       /\ ret[p].hdr = descs
       /\ ret[p].val # <<firstInit.d>>
       /\ pc[q] = "describe_ret" /\ ret[q].hdr.len = 2

\* --------------------------------------- the two fields while Init runs
\* The metric reference and the cache belong together: both unset, or the
\* cache holds one descriptor, one that the stored metric's Desc() returns.
Paired ==
  /\ self = Nil <=> CachedDescs = <<>>
  /\ self # Nil => Len(CachedDescs) = 1 /\ CachedDescs[1] \in DescsOf(self)

====
